---- MODULE Spec2Model ----
(***************************************************************************)
(* Housing price prediction service: the request schema (api/schemas.py),  *)
(* the model store and the prediction dispatcher (api/app.py), and the     *)
(* feature lists the pipelines are trained on (src/models/train_model.py)  *)
(* and the feature importance script (src/models/inspect_model.py).        *)
(*                                                                         *)
(* Representation: a JSON / Python value that may be None is a sequence of *)
(* length at most one: <<>> is None (JSON null), <<v>> is the value v.     *)
(* Floats are written as integers (1.0 is 1, 1980.0 is 1980).              *)
(***************************************************************************)
EXTENDS Integers, Sequences, FiniteSets, TLC

VARIABLES files, nanPolicy, phase, models, last, ref, inspect

vars == <<files, nanPolicy, phase, models, last, ref, inspect>>

None == <<>>

Some(v) == <<v>>

(***************************************************************************)
(* Bounds                                                                  *)
(***************************************************************************)
\* room counts a request may carry: 1..MaxRooms
MaxRooms == 2

(***************************************************************************)
(* api/schemas.py : PropertyData                                           *)
(***************************************************************************)
\* fields declared without a default
RequiredFields ==
    {"city", "type", "squareMeters", "rooms", "centreDistance", "poiCount",
     "schoolDistance", "clinicDistance", "postOfficeDistance",
     "kindergartenDistance", "restaurantDistance", "collegeDistance",
     "pharmacyDistance", "ownership"}

\* fields declared Optional[...] = default : None is an accepted value
NullableFields ==
    {"floor", "floorCount", "buildYear", "buildingMaterial", "condition"}

\* fields declared int = 0
FlagFields ==
    {"hasParkingSpace", "hasBalcony", "hasElevator", "hasSecurity",
     "hasStorageRoom"}

OptionalFields == NullableFields \cup FlagFields

PropertyDataFieldsDropped == (RequiredFields \cup OptionalFields) \ {"hasSecurity"}

PropertyDataFields == RequiredFields \cup OptionalFields

FieldDefaultZeroFloor(f) ==
    CASE f = "floor"            -> Some(0)
      [] f = "floorCount"       -> Some(1)
      [] f = "buildYear"        -> Some(1980)
      [] f = "buildingMaterial" -> Some("brick")
      [] f = "condition"        -> Some("unknown")
      [] OTHER                  -> Some(0)

\* the declared default of an optional field
FieldDefault(f) ==
    CASE f = "floor"            -> Some(1)
      [] f = "floorCount"       -> Some(1)
      [] f = "buildYear"        -> Some(1980)
      [] f = "buildingMaterial" -> Some("brick")
      [] f = "condition"        -> Some("unknown")
      [] OTHER                  -> Some(0)

\* fields of a payload that make validation fail: a required field that is
\* absent, or an explicit null for a field whose type does not admit None
OffendingFields(payload) ==
    {f \in PropertyDataFields :
        \/ f \notin DOMAIN payload /\ f \in RequiredFields
        \/ f \in DOMAIN payload /\ payload[f] = None /\ f \notin NullableFields}

\* the schema with the required fields declared Optional[...] = None
PropertyDataAllOptional(payload) ==
    IF \E f \in DOMAIN payload : payload[f] = None /\ f \in FlagFields
    THEN [ok |-> FALSE, data |-> [f \in {} |-> None]]
    ELSE [ok |-> TRUE,
          data |-> [f \in PropertyDataFields |->
                       IF f \in DOMAIN payload THEN payload[f]
                       ELSE IF f \in RequiredFields THEN None
                       ELSE FieldDefault(f)]]

\* PropertyData(**payload): the validated object, or a validation error
PropertyData(payload) ==
    IF OffendingFields(payload) # {}
    THEN [ok |-> FALSE, data |-> [f \in {} |-> None]]
    ELSE [ok |-> TRUE,
          data |-> [f \in PropertyDataFields |->
                       IF f \in DOMAIN payload THEN payload[f]
                       ELSE FieldDefault(f)]]

(***************************************************************************)
(* src/models/train_model.py : feature lists and the pipeline              *)
(***************************************************************************)
\* the two lists in the order the script writes them
train_CATEGORICAL_FEATURES ==
    <<"city", "type", "ownership", "buildingMaterial", "condition">>

train_NUMERICAL_FEATURES ==
    <<"squareMeters", "rooms", "floor", "floorCount", "buildYear",
      "centreDistance", "poiCount", "schoolDistance", "clinicDistance",
      "postOfficeDistance", "kindergartenDistance", "restaurantDistance",
      "collegeDistance", "pharmacyDistance", "hasParkingSpace", "hasBalcony",
      "hasElevator", "hasSecurity", "hasStorageRoom">>

Range(seq) == {seq[i] : i \in 1..Len(seq)}

\* the lists as sets of column names
CATEGORICAL_FEATURES == Range(train_CATEGORICAL_FEATURES)

NUMERICAL_FEATURES == Range(train_NUMERICAL_FEATURES)

\* the columns the ColumnTransformer of build_pipeline selects
TrainedFeatures == NUMERICAL_FEATURES \cup CATEGORICAL_FEATURES


\* the regressor's value for one row: a deterministic function of the
\* scaled numerical columns and the one-hot encoded categorical columns
\* (a category not seen in training encodes to all zeros:
\* handle_unknown='ignore'); a missing value contributes nothing
Num(row, f) == IF row[f] = None THEN 0 ELSE row[f][1]

OneHot(row, f, category) == IF row[f] = Some(category) THEN 1 ELSE 0

Regress(data_mode, row) ==
    IF data_mode = "sale"
    THEN 100 * Num(row, "squareMeters") + 50 * Num(row, "rooms")
         + 10 * Num(row, "floor") + Num(row, "buildYear")
         + 5 * Num(row, "hasBalcony") + 7 * OneHot(row, "buildingMaterial", "brick")
         + 3 * OneHot(row, "condition", "premium")
    ELSE 2 * Num(row, "squareMeters") + 3 * Num(row, "rooms")
         + Num(row, "floor") + Num(row, "hasParkingSpace")
         + OneHot(row, "city", "warszawa")

\* the objects a model file can unpickle to
Pipeline(data_mode) == [kind |-> "pipeline", data_mode |-> data_mode]

NotAPipeline == [kind |-> "object", data_mode |-> ""]

Classifier == [kind |-> "classifier", data_mode |-> ""]

Float64(x) == [dtype |-> "float64", num |-> x, text |-> ""]

Label(s) == [dtype |-> "str", num |-> 0, text |-> s]

Raised(msg) == [raised |-> TRUE, msg |-> msg, output |-> <<>>]

Returned(out) == [raised |-> FALSE, msg |-> "", output |-> out]

\* model.predict(df): one output per row of df, or an exception.
\* policy is what the installed estimator does with a missing value
\* (the pipeline has no imputing step): reject the input or accept it.
PipelinePredict(model, policy, df) ==
    CASE model.kind = "object" ->
            Raised("object has no attribute 'predict'")
      [] model.kind = "classifier" ->
            Returned([i \in 1..Len(df) |-> Label("cheap")])
      [] OTHER ->
            IF \E i \in 1..Len(df) : ~(TrainedFeatures \subseteq DOMAIN df[i])
            THEN Raised("columns are missing")
            ELSE IF /\ policy = "raise"
                    /\ \E i \in 1..Len(df) : \E f \in TrainedFeatures : df[i][f] = None
            THEN Raised("Input contains NaN")
            ELSE Returned([i \in 1..Len(df) |-> Float64(Regress(model.data_mode, df[i]))])

\* float(x) for an element of a prediction array
ToFloat(x) ==
    IF x.dtype = "float64"
    THEN [raised |-> FALSE, msg |-> "", value |-> x.num]
    ELSE [raised |-> TRUE, msg |-> "could not convert string to float", value |-> 0]

(***************************************************************************)
(* api/app.py : the model store and its loading at startup                 *)
(***************************************************************************)
Modes == {"sale", "rent"}

NoArtifact == [kind |-> "none", data_mode |-> ""]

Missing == [exists |-> FALSE, readable |-> FALSE, content |-> NoArtifact]

Corrupt == [exists |-> TRUE, readable |-> FALSE, content |-> NoArtifact]

PickleOf(a) == [exists |-> TRUE, readable |-> TRUE, content |-> a]

\* what models/model_<mode>.pkl can be when the process starts
FileStates(mode) ==
    {Missing, Corrupt, PickleOf(Pipeline(mode)), PickleOf(NotAPipeline),
     PickleOf(Classifier)}

EmptyStore == [m \in {} |-> NoArtifact]

\* models[mode] = value
Assign(store, mode, value) ==
    [k \in DOMAIN store \cup {mode} |-> IF k = mode THEN value ELSE store[k]]

\* if os.path.exists(path): models[mode] = joblib.load(path)
LoadIfExists(fs, store, mode) ==
    IF ~fs[mode].exists
    THEN [raised |-> FALSE, store |-> store]
    ELSE IF fs[mode].readable
    THEN [raised |-> FALSE, store |-> Assign(store, mode, fs[mode].content)]
    ELSE [raised |-> TRUE, store |-> store]

load_modelsNested(fs, store) ==
    LET sale == LoadIfExists(fs, store, "sale")
    IN  IF sale.raised \/ ~fs["sale"].exists THEN sale
        ELSE LoadIfExists(fs, sale.store, "rent")

\* the startup handler: the sale file, then the rent file; an exception of
\* joblib.load ends the handler where it is raised
load_models(fs, store) ==
    LET sale == LoadIfExists(fs, store, "sale")
    IN  IF sale.raised THEN sale ELSE LoadIfExists(fs, sale.store, "rent")


(***************************************************************************)
(* api/app.py : predict                                                    *)
(***************************************************************************)
\* what a request leaves behind: the response (status, detail, body) and
\* the trace of the handler (was the store looked up, which store entries
\* were invoked on which table, which exception was raised in the try
\* block, did an exception leave the handler uncaught) and the store
Result(status, detail, body_mode, price, lookedUp, invocations, fault, escaped, store) ==
    [status |-> status, detail |-> detail, body_mode |-> body_mode,
     predicted_price |-> price, lookedUp |-> lookedUp,
     invocations |-> invocations, fault |-> fault, escaped |-> escaped,
     store |-> store]

\* raise HTTPException(status_code, detail)
HTTPException(status, detail, lookedUp, invocations, fault, store) ==
    Result(status, detail, "", None, lookedUp, invocations, fault, FALSE, store)

\* the try block without its except clause: the exception leaves predict
InferNoCatch(store, policy, mode, data) ==
    LET df    == <<data>>
        run   == PipelinePredict(store[mode], policy, df)
        call  == [key |-> mode, df |-> df, output |-> run.output]
    IN  IF run.raised
        THEN Result(500, <<"Internal Server Error">>, "", None, TRUE, <<call>>,
                    Some(run.msg), TRUE, store)
        ELSE IF ToFloat(run.output[1]).raised
        THEN Result(500, <<"Internal Server Error">>, "", None, TRUE, <<call>>,
                    Some(ToFloat(run.output[1]).msg), TRUE, store)
        ELSE Result(200, <<>>, mode, Some(ToFloat(run.output[1]).value), TRUE,
                    <<call>>, None, FALSE, store)

\* the try block dropping the store entry of a pipeline that failed
InferEvict(store, policy, mode, data) ==
    LET df    == <<data>>
        run   == PipelinePredict(store[mode], policy, df)
        call  == [key |-> mode, df |-> df, output |-> run.output]
    IN  IF run.raised
        THEN HTTPException(500, <<run.msg>>, TRUE, <<call>>, Some(run.msg),
                           [k \in DOMAIN store \ {mode} |-> store[k]])
        ELSE IF ToFloat(run.output[1]).raised
        THEN HTTPException(500, <<ToFloat(run.output[1]).msg>>, TRUE, <<call>>,
                           Some(ToFloat(run.output[1]).msg),
                           [k \in DOMAIN store \ {mode} |-> store[k]])
        ELSE Result(200, <<>>, mode, Some(ToFloat(run.output[1]).value), TRUE,
                    <<call>>, None, FALSE, store)

\* the try block taking the sale entry whenever the store has one
InferSaleFirst(store, policy, mode, data) ==
    LET df    == <<data>>
        key   == IF "sale" \in DOMAIN store THEN "sale" ELSE mode
        run   == PipelinePredict(store[key], policy, df)
        call  == [key |-> key, df |-> df, output |-> run.output]
    IN  IF run.raised
        THEN HTTPException(500, <<run.msg>>, TRUE, <<call>>, Some(run.msg), store)
        ELSE IF ToFloat(run.output[1]).raised
        THEN HTTPException(500, <<ToFloat(run.output[1]).msg>>, TRUE, <<call>>,
                           Some(ToFloat(run.output[1]).msg), store)
        ELSE Result(200, <<>>, mode, Some(ToFloat(run.output[1]).value), TRUE,
                    <<call>>, None, FALSE, store)

\* the try block of predict for a mode the store has an entry for
Infer(store, policy, mode, data) ==
    LET df    == <<data>>
        model == store[mode]
        run   == PipelinePredict(model, policy, df)
        call  == [key |-> mode, df |-> df, output |-> run.output]
    IN  IF run.raised
        THEN HTTPException(500, <<run.msg>>, TRUE, <<call>>, Some(run.msg), store)
        ELSE IF Len(run.output) = 0
        THEN HTTPException(500, <<"index 0 is out of bounds">>, TRUE, <<call>>,
                           Some("index 0 is out of bounds"), store)
        ELSE LET price == ToFloat(run.output[1])
             IN  IF price.raised
                 THEN HTTPException(500, <<price.msg>>, TRUE, <<call>>,
                                    Some(price.msg), store)
                 ELSE Result(200, <<>>, mode, Some(price.value), TRUE,
                             <<call>>, None, FALSE, store)

\* predict looking the mode up in the store before checking the mode
predictStoreFirst(store, policy, mode, data) ==
    IF mode \notin DOMAIN store
    THEN HTTPException(500, <<"Model for ", mode, " not loaded">>, TRUE, <<>>, None, store)
    ELSE IF mode \notin {"sale", "rent"}
    THEN HTTPException(400, <<"Mode must be 'sale' or 'rent'">>, FALSE, <<>>, None, store)
    ELSE Infer(store, policy, mode, data)

\* predict reporting a mode without an entry as an invalid mode
predictUnavailable400(store, policy, mode, data) ==
    IF mode \notin {"sale", "rent"} \/ mode \notin DOMAIN store
    THEN HTTPException(400, <<"Mode must be 'sale' or 'rent'">>, FALSE, <<>>, None, store)
    ELSE Infer(store, policy, mode, data)

\* predict(mode, data) against the store
predict(store, policy, mode, data) ==
    IF mode \notin {"sale", "rent"}
    THEN HTTPException(400, <<"Mode must be 'sale' or 'rent'">>, FALSE, <<>>, None, store)
    ELSE IF mode \notin DOMAIN store
    THEN HTTPException(500, <<"Model for ", mode, " not loaded">>, TRUE, <<>>, None, store)
    ELSE Infer(store, policy, mode, data)


(***************************************************************************)
(* src/models/inspect_model.py                                             *)
(***************************************************************************)
inspect_CATEGORICAL_FEATURES ==
    <<"city", "type", "ownership", "buildingMaterial", "condition">>

inspect_NUMERICAL_FEATURES ==
    <<"squareMeters", "rooms", "floor", "floorCount", "buildYear",
      "centreDistance", "poiCount", "schoolDistance", "clinicDistance",
      "postOfficeDistance", "kindergartenDistance", "restaurantDistance",
      "collegeDistance", "pharmacyDistance">>

\* the categories the one-hot encoder of a fitted pipeline has learned for
\* a categorical column, from the data of the pipeline's mode
Categories(data_mode, f) ==
    CASE f = "city"      -> IF data_mode = "sale"
                            THEN <<"krakow", "warszawa">> ELSE <<"warszawa">>
      [] f = "type"      -> <<"apartmentBuilding", "blockOfFlats">>
      [] f = "ownership" -> <<"condominium", "cooperative">>
      [] f = "condition" -> <<"low", "premium", "unknown">>
      [] OTHER           -> <<"brick", "concreteSlab">>

\* one name per learned category of each column, column by column; a name
\* is the sequence of its parts: <<column>> or <<column, category>>
RECURSIVE EncodedNames(_, _)
EncodedNames(data_mode, columns) ==
    IF columns = <<>> THEN <<>>
    ELSE [i \in 1..Len(Categories(data_mode, Head(columns))) |->
              <<Head(columns), Categories(data_mode, Head(columns))[i]>>]
         \o EncodedNames(data_mode, Tail(columns))

\* ohe.get_feature_names_out(input_features): the input features must be
\* the columns the encoder was fitted on
get_feature_names_out(pipeline, input_features) ==
    IF input_features # train_CATEGORICAL_FEATURES
    THEN [raised |-> TRUE, names |-> <<>>]
    ELSE [raised |-> FALSE,
          names |-> EncodedNames(pipeline.data_mode, input_features)]

\* the number of columns the fitted preprocessor emits: the scaled
\* numerical columns, then the one-hot columns
TransformedWidth(pipeline) ==
    Len(train_NUMERICAL_FEATURES)
    + Len(EncodedNames(pipeline.data_mode, train_CATEGORICAL_FEATURES))

\* rf_model.feature_importances_: one value per emitted column
feature_importances_(pipeline) ==
    [i \in 1..TransformedWidth(pipeline) |-> (i * 7) % 31]

\* get_feature_names(pipeline)
get_feature_names(pipeline) ==
    LET cat == get_feature_names_out(pipeline, inspect_CATEGORICAL_FEATURES)
    IN  [raised |-> cat.raised,
         names  |-> IF cat.raised THEN <<>>
                    ELSE [i \in 1..Len(inspect_NUMERICAL_FEATURES) |->
                             <<inspect_NUMERICAL_FEATURES[i]>>] \o cat.names]

\* feat_df.sort_values(by='Importance', ascending=False)
RECURSIVE SortDescending(_)
SortDescending(rows) ==
    IF rows = <<>> THEN <<>>
    ELSE LET top == CHOOSE i \in 1..Len(rows) :
                        \A j \in 1..Len(rows) :
                            \/ rows[j].Importance < rows[i].Importance
                            \/ rows[j].Importance = rows[i].Importance /\ i <= j
         IN  <<rows[top]>>
             \o SortDescending([k \in 1..(Len(rows) - 1) |->
                                    IF k < top THEN rows[k] ELSE rows[k + 1]])

\* .head(n)
Top(rows, n) == [i \in 1..(IF Len(rows) < n THEN Len(rows) ELSE n) |-> rows[i]]

NoInspect ==
    [mode |-> "", status |-> "none", feature_names |-> <<>>,
     importances |-> <<>>, feat_df |-> <<>>]

\* plot_importance(mode): what one run of the script ends with
plot_importance(fs, mode) ==
    LET run == [NoInspect EXCEPT !.mode = mode]
    IN  IF ~fs[mode].exists
        THEN [run EXCEPT !.status = "not found"]
        ELSE IF ~fs[mode].readable \/ fs[mode].content.kind # "pipeline"
        THEN [run EXCEPT !.status = "error"]
        ELSE LET pipeline == fs[mode].content
                 imp      == feature_importances_(pipeline)
                 got      == get_feature_names(pipeline)
             IN  IF got.raised
                 THEN [run EXCEPT !.status = "error", !.importances = imp]
                 ELSE IF Len(got.names) # Len(imp)
                 THEN [run EXCEPT !.status = "error", !.importances = imp,
                                  !.feature_names = got.names]
                 ELSE [run EXCEPT !.status = "plotted", !.importances = imp,
                                  !.feature_names = got.names,
                                  !.feat_df = Top(SortDescending(
                                      [i \in 1..Len(imp) |->
                                          [Feature |-> got.names[i],
                                           Importance |-> imp[i]]]), 20)]

(***************************************************************************)
(* Requests                                                                *)
(***************************************************************************)
\* the path parameter is any string: the two modes, and strings that are not
ModeStrings == {"sale", "rent", "boat", "Sale"}

\* a payload with every field given, none of them at its default
FullPayload(rooms) ==
    [f \in PropertyDataFields |->
        CASE f = "city"             -> Some("warszawa")
          [] f = "type"             -> Some("blockOfFlats")
          [] f = "ownership"        -> Some("condominium")
          [] f = "buildingMaterial" -> Some("concreteSlab")
          [] f = "condition"        -> Some("premium")
          [] f = "squareMeters"     -> Some(50)
          [] f = "rooms"            -> Some(rooms)
          [] f = "floor"            -> Some(3)
          [] f = "floorCount"       -> Some(5)
          [] f = "buildYear"        -> Some(2005)
          [] f = "poiCount"         -> Some(10)
          [] f \in FlagFields       -> Some(1)
          [] OTHER                  -> Some(2)]

Omit(payload, fs) == [f \in DOMAIN payload \ fs |-> payload[f]]

WithNull(payload, fs) ==
    [f \in DOMAIN payload |-> IF f \in fs THEN None ELSE payload[f]]

\* the request bodies: full payloads, and payloads with the optional fields
\* omitted, one field omitted, one field null, the nullable fields null
Payloads ==
    {FullPayload(r) : r \in 1..MaxRooms}
    \cup {Omit(FullPayload(r), OptionalFields) : r \in 1..MaxRooms}
    \cup {Omit(FullPayload(1), {f}) : f \in PropertyDataFields}
    \cup {WithNull(FullPayload(1), {f}) : f \in PropertyDataFields}
    \cup {WithNull(FullPayload(1), NullableFields)}

\* the request bodies of the runs that compare two requests
ObservedPayloads ==
    {FullPayload(r) : r \in 1..MaxRooms}
    \cup {Omit(FullPayload(1), OptionalFields),
          Omit(FullPayload(1), {"city"}),
          WithNull(FullPayload(1), {"floor"})}

NoData == [f \in {} |-> None]

NoRequest ==
    [op |-> "none", mode |-> "", payload |-> NoData, validated |-> FALSE,
     data |-> NoData, status |-> 0, detail |-> <<>>, body_mode |-> "",
     predicted_price |-> None, lookedUp |-> FALSE, invocations |-> <<>>,
     fault |-> None, escaped |-> FALSE, loaded |-> {}, kept |-> FALSE]

\* the outcome of a request as the client sees it
Outcome(r) ==
    [status |-> r.status, detail |-> r.detail, body_mode |-> r.body_mode,
     predicted_price |-> r.predicted_price]

Init ==
    /\ files \in {fs \in [Modes -> UNION {FileStates(m) : m \in Modes}] :
                     \A m \in Modes : fs[m] \in FileStates(m)}
    /\ nanPolicy \in {"raise", "accept"}
    /\ phase = "startup"
    /\ models = EmptyStore
    /\ last = NoRequest
    /\ ref = {}
    /\ inspect = NoInspect

\* @app.on_event("startup"): the server serves only if the handler returns
LoadModels ==
    /\ phase = "startup"
    /\ LET r == load_models(files, models)
       IN  /\ models' = r.store
           /\ phase' = IF r.raised THEN "failed" ELSE "serving"
    /\ UNCHANGED <<files, nanPolicy, last, ref, inspect>>

\* GET /
Index ==
    /\ phase = "serving"
    /\ last' = [NoRequest EXCEPT !.op = "index", !.status = 200]
    /\ UNCHANGED <<files, nanPolicy, phase, models, ref, inspect>>

\* POST /predict/{mode}: the body is validated against PropertyData, and
\* predict runs only on a validated body. last.loaded is the key set of the
\* store when the request arrives; observe says whether the request may be
\* kept in ref as the one later requests are compared with.
PredictRequest(bodies, observe) ==
    /\ phase = "serving"
    /\ \E mode \in ModeStrings, payload \in bodies, keep \in observe :
         LET v   == PropertyData(payload)
             req == [NoRequest EXCEPT !.op = "predict", !.mode = mode,
                                      !.payload = payload,
                                      !.loaded = DOMAIN models]
         IN  IF ~v.ok
             THEN /\ last' = [req EXCEPT !.status = 422,
                                         !.detail = <<"field required">>]
                  /\ UNCHANGED <<models, ref>>
             ELSE LET r == predict(models, nanPolicy, mode, v.data)
                      done == [req EXCEPT !.validated = TRUE, !.data = v.data,
                                  !.status = r.status, !.detail = r.detail,
                                  !.body_mode = r.body_mode,
                                  !.predicted_price = r.predicted_price,
                                  !.lookedUp = r.lookedUp,
                                  !.invocations = r.invocations,
                                  !.fault = r.fault, !.escaped = r.escaped,
                                  !.kept = keep]
                  IN  /\ last' = done
                      /\ models' = r.store
                      /\ ref' = IF keep
                                THEN {[mode |-> mode, data |-> v.data,
                                       outcome |-> Outcome(done)]}
                                ELSE ref
    /\ UNCHANGED <<files, nanPolicy, phase, inspect>>

Predict == PredictRequest(Payloads, {FALSE})

PredictObserved == PredictRequest(ObservedPayloads, BOOLEAN)

Next == LoadModels \/ Index \/ Predict

Spec == Init /\ [][Next]_vars

NextObserved == LoadModels \/ Index \/ PredictObserved

SpecObserved == Init /\ [][NextObserved]_vars

\* python inspect_model.py --mode <mode>: a process of its own that reads
\* the model file of the mode
PlotImportance ==
    /\ \E mode \in Modes : inspect' = plot_importance(files, mode)
    /\ UNCHANGED <<files, nanPolicy, phase, models, last, ref>>

NextInspect == LoadModels \/ PlotImportance

SpecInspect == Init /\ [][NextInspect]_vars


(***************************************************************************)
(* Properties                                                              *)
(***************************************************************************)
InvalidModeDetail == <<"Mode must be 'sale' or 'rent'">>

NotLoadedDetail(mode) == <<"Model for ", mode, " not loaded">>

\* the request last handled is a predict call on a validated body
Predicted == last.op = "predict" /\ last.validated

\* C1: a predict call whose mode is neither "sale" nor "rent" ends in the
\* invalid-mode error, status 400, whatever the store holds, and invokes
\* no pipeline
C1_InvalidModeIs400 ==
    (Predicted /\ last.mode \notin {"sale", "rent"})
        => /\ last.status = 400
           /\ last.detail = InvalidModeDetail
           /\ last.predicted_price = None
           /\ last.invocations = <<>>

C1_Witness ==
    /\ Predicted
    /\ last.mode = "boat"
    /\ last.loaded = Modes
    /\ last.status = 400

\* C2: a predict call for "sale" or "rent" when the store has no entry for
\* that mode ends in the model-unavailable error, status 500: not the
\* invalid-mode error, not a success, whether or not the other mode is loaded
C2_UnloadedModeIs500 ==
    (Predicted /\ last.mode \in Modes /\ last.mode \notin last.loaded)
        => /\ last.status = 500
           /\ last.detail = NotLoadedDetail(last.mode)
           /\ last.predicted_price = None
           /\ last.invocations = <<>>

C2_Witness ==
    /\ Predicted
    /\ last.mode = "rent"
    /\ last.loaded = {"sale"}
    /\ last.status = 500
    /\ last.detail = NotLoadedDetail("rent")

\* C3: an exception raised by the pipeline invocation or by the conversion
\* of its first output is caught in predict and answered with status 500
\* whose detail is the exception's message; none leaves predict uncaught
C3_FaultIsCaughtAs500 ==
    /\ (Predicted /\ last.fault # None)
          => /\ last.status = 500
             /\ last.detail = <<last.fault[1]>>
             /\ last.predicted_price = None
    /\ ~last.escaped

C3_Witness ==
    /\ Predicted
    /\ Len(last.invocations) = 1
    /\ last.fault = Some("could not convert string to float")
    /\ last.status = 500

NoCorruptFile == \A m \in Modes : files[m].exists => files[m].readable

\* C4: after load_models, the store has an entry for a mode exactly when
\* that mode's file exists, the entry being the file's content; a missing
\* file does not keep the handler from returning nor the other mode from
\* being loaded
C4_BestEffortLoading ==
    /\ (phase # "startup" /\ NoCorruptFile) => phase = "serving"
    /\ phase = "serving"
          => \A m \in Modes :
                /\ m \in DOMAIN models <=> files[m].exists
                /\ m \in DOMAIN models => models[m] = files[m].content

C4_Witness ==
    /\ phase = "serving"
    /\ ~files["sale"].exists
    /\ DOMAIN models = {"rent"}
    /\ models["rent"] = Pipeline("rent")

\* C5: once the server serves, the store stays what load_models left,
\* whatever requests have been handled
C5_StoreIsReadOnly ==
    phase = "serving" => models = load_models(files, EmptyStore).store

C5_Witness ==
    /\ Predicted
    /\ last.fault # None
    /\ last.status = 500
    /\ DOMAIN models = Modes
    /\ models = load_models(files, EmptyStore).store

SuppliesExactlyRequired(payload) ==
    /\ DOMAIN payload = RequiredFields
    /\ \A f \in RequiredFields : payload[f] # None

\* C6: a payload with every required field and no optional field validates
\* to a record with floor 1.0, floorCount 1.0, buildYear 1980.0,
\* buildingMaterial "brick", condition "unknown", the five flags 0, and the
\* required fields as supplied
C6_DefaultsApplied ==
    (last.op = "predict" /\ SuppliesExactlyRequired(last.payload))
        => /\ last.validated
           /\ DOMAIN last.data = PropertyDataFields
           /\ last.data["floor"] = Some(1)
           /\ last.data["floorCount"] = Some(1)
           /\ last.data["buildYear"] = Some(1980)
           /\ last.data["buildingMaterial"] = Some("brick")
           /\ last.data["condition"] = Some("unknown")
           /\ \A f \in FlagFields : last.data[f] = Some(0)
           /\ \A f \in RequiredFields : last.data[f] = last.payload[f]

C6_Witness ==
    /\ last.op = "predict"
    /\ SuppliesExactlyRequired(last.payload)
    /\ last.data["floor"] = Some(1)
    /\ last.data["rooms"] = Some(MaxRooms)
    /\ last.status = 200

\* C7: the record handed to the pipeline has all 24 fields and none of
\* them is null, for every accepted payload
C7_NoNullAtInference ==
    \A i \in 1..Len(last.invocations) :
        \A k \in 1..Len(last.invocations[i].df) :
            /\ DOMAIN last.invocations[i].df[k] = PropertyDataFields
            /\ Cardinality(DOMAIN last.invocations[i].df[k]) = 24
            /\ \A f \in PropertyDataFields : last.invocations[i].df[k][f] # None

\* C8: the columns of the table predict passes to the pipeline are the
\* features the training pipeline is built on
C8_ColumnsAreTrainedFeatures ==
    \A i \in 1..Len(last.invocations) :
        \A k \in 1..Len(last.invocations[i].df) :
            DOMAIN last.invocations[i].df[k]
                = CATEGORICAL_FEATURES \cup NUMERICAL_FEATURES

C8_Witness ==
    /\ Predicted
    /\ Len(last.invocations) = 1
    /\ SuppliesExactlyRequired(last.payload)
    /\ last.status = 200
    /\ last.body_mode = "sale"

\* C9: a predict call for a loaded mode in which nothing is raised invokes
\* the store entry of that mode once, on a table of one row holding the
\* record, and answers with the mode and the first element of the output
C9_OneInvocationOfTheMode ==
    (Predicted /\ last.mode \in last.loaded /\ last.mode \in Modes
        /\ last.fault = None)
        => /\ last.status = 200
           /\ Len(last.invocations) = 1
           /\ last.invocations[1].key = last.mode
           /\ last.invocations[1].df = <<last.data>>
           /\ Len(last.invocations[1].output) = 1
           /\ last.body_mode = last.mode
           /\ last.predicted_price = Some(last.invocations[1].output[1].num)
           /\ last.invocations[1].output
                = PipelinePredict(files[last.mode].content, nanPolicy,
                                  <<last.data>>).output

C9_Witness ==
    /\ Predicted
    /\ last.mode = "rent"
    /\ last.loaded = Modes
    /\ files["sale"].content = Pipeline("sale")
    /\ last.status = 200
    /\ last.predicted_price = Some(Regress("rent", last.data))

\* C10: a predict call with the mode and the record of an earlier call
\* has the outcome of the earlier call
C10_SameRequestSameOutcome ==
    \A r \in ref :
        (Predicted /\ last.mode = r.mode /\ last.data = r.data)
            => Outcome(last) = r.outcome

C10_Witness ==
    /\ Predicted
    /\ ~last.kept
    /\ last.status = 200
    /\ \E r \in ref : last.mode = r.mode /\ last.data = r.data


LacksRequiredField(payload) == \E f \in RequiredFields : f \notin DOMAIN payload

\* C11: a payload that lacks a required field is rejected as a validation
\* failure before predict runs: the store is not looked up and no pipeline
\* is invoked, whatever the mode
C11_MissingRequiredIsRejected ==
    (last.op = "predict" /\ LacksRequiredField(last.payload))
        => /\ ~last.validated
           /\ last.status = 422
           /\ last.predicted_price = None
           /\ ~last.lookedUp
           /\ last.invocations = <<>>

C11_Witness ==
    /\ last.op = "predict"
    /\ "ownership" \notin DOMAIN last.payload
    /\ last.mode = "sale"
    /\ last.loaded = Modes
    /\ files["sale"].content = Pipeline("sale")
    /\ last.status = 422


\* C12: the feature lists of inspect_model are those of train_model, so a
\* run of plot_importance that gets the feature names of a trained pipeline
\* gets one name per column the preprocessor emits, one per importance
C12_InspectListsMatchTraining ==
    inspect.feature_names # <<>>
        => /\ inspect_CATEGORICAL_FEATURES = train_CATEGORICAL_FEATURES
           /\ inspect_NUMERICAL_FEATURES = train_NUMERICAL_FEATURES
           /\ Len(inspect.feature_names) = Len(inspect.importances)

====
